---- MODULE Spec2Model ----
(***************************************************************************)
(* A model of the Kaleidoscope front end of src/kaleidoscope/src/main.cpp: *)
(* the token reader, the recursive-descent / operator-precedence parser,   *)
(* the lowering of the AST into the IR module, and the top-level driver.   *)
(*                                                                         *)
(* Standard input is modelled as a stream of lexemes (a word, a number or  *)
(* a single character): white space and comments, which gettok skips, are  *)
(* not part of the stream.  The environment supplies the lexemes that one  *)
(* step of the driver reads; it may end the stream at any point.           *)
(***************************************************************************)
EXTENDS Integers, Sequences, FiniteSets, TLC

VARIABLES
    pc,           \* "start" (main before MainLoop) | "ready" (top of the
                  \* loop) | "done" (MainLoop returned) | "crashed"
    CurTok,       \* the parser's one token of lookahead
    IdentifierStr,\* text of the last word gettok read
    NumVal,       \* value of the last number gettok read
    LastCharEOF,  \* gettok's LastChar == EOF
    stdin,        \* lexemes typed but not read yet
    budget,       \* lexemes the environment may still type
    module,       \* the functions of the llvm::Module, in creation order
    LastUnique,   \* the module symbol table's counter for renamed values
    namedValues,  \* name -> argument handle (null when unbound)
    stderr,       \* the messages the last handler printed
    ast,          \* the AST the last handler parsed (null after a parse failure)
    FnIR          \* the function the last handler's codegen() returned (or null)

vars == <<pc, CurTok, IdentifierStr, NumVal, LastCharEOF, stdin, budget, module,
          LastUnique, namedValues, stderr, ast, FnIR>>

-----------------------------------------------------------------------------
(* Bounds of the model. *)

\* lexemes the environment supplies in one session
MaxInput == 16
\* binary operators in one expression of the parser specification
MaxOps == 3
\* lexemes the environment supplies in one session of the fair specification
MaxFair == 10

-----------------------------------------------------------------------------
(* enum Token *)

tok_eof == -1
tok_def == -2
tok_extern == -3
tok_identifier == -4
tok_number == -5

\* The character codes of the single-character tokens.
Ascii ==
    [c \in {"(", ")", "*", "+", ",", "-", "/", ";", "<"} |->
        CASE c = "(" -> 40 [] c = ")" -> 41 [] c = "*" -> 42 [] c = "+" -> 43
          [] c = "," -> 44 [] c = "-" -> 45 [] c = "/" -> 47 [] c = ";" -> 59
          [] c = "<" -> 60]

\* Lexemes of the input stream.
W(s) == [k |-> "word", s |-> s, v |-> 0]
N(v) == [k |-> "num", s |-> "", v |-> v]
C(c) == [k |-> "chr", s |-> c, v |-> Ascii[c]]

-----------------------------------------------------------------------------
(* The lexer.  A reader state ps holds CurTok, IdentifierStr, NumVal,      *)
(* LastChar == EOF, the unread input and what was logged.                  *)

\* gettok with getNextToken's assignment to CurTok.
getNextToken(ps) ==
    IF ps.eof \/ ps.in = <<>>
    THEN [ps EXCEPT !.tok = tok_eof, !.eof = TRUE]
    ELSE LET lx == Head(ps.in)
             p1 == [ps EXCEPT !.in = Tail(ps.in)]
         IN  CASE lx.k = "word" ->
                    [p1 EXCEPT !.id = lx.s,
                               !.tok = IF lx.s = "def" THEN tok_def
                                       ELSE IF lx.s = "extern" THEN tok_extern
                                       ELSE tok_identifier]
               [] lx.k = "num" -> [p1 EXCEPT !.num = lx.v, !.tok = tok_number]
               [] OTHER -> [p1 EXCEPT !.tok = lx.v]

\* BinopPrecedence as main() fills it; a key never set reads as 0.
BinopPrecedence ==
    [c \in 0..127 |->
        CASE c = 60 -> 10 [] c = 43 -> 20 [] c = 45 -> 20 [] c = 42 -> 40
          [] OTHER -> 0]

isascii(c) == c >= 0 /\ c <= 127

GetTokPrecedence(tok) ==
    IF ~isascii(tok) THEN -1
    ELSE LET TokPrec == BinopPrecedence[tok]
         IN  IF TokPrec <= 0 THEN -1 ELSE TokPrec

LogError(ps, str) == [ps EXCEPT !.log = Append(@, str)]

-----------------------------------------------------------------------------
(* AST nodes. *)

NullAST == [k |-> "null"]
NumberExprAST(v) == [k |-> "num", v |-> v]
VariableExprAST(name) == [k |-> "var", name |-> name]
BinaryExprAST(op, lhs, rhs) == [k |-> "bin", op |-> op, lhs |-> lhs, rhs |-> rhs]
CallExprAST(callee, args) == [k |-> "call", callee |-> callee, args |-> args]
PrototypeAST(name, args) == [k |-> "proto", name |-> name, args |-> args]
FunctionAST(proto, body) == [k |-> "func", proto |-> proto, body |-> body]

\* What a parse function returns: its result and the reader state it leaves.
Ret(r, ps) == [r |-> r, ps |-> ps]

-----------------------------------------------------------------------------
(* The parser.  A parse function is written as the call it makes followed  *)
(* by an operator for what it does with the result (the code after the     *)
(* call), so that each call is written once.                               *)

RECURSIVE ParseExpression(_)
RECURSIVE ParsePrimary(_)
RECURSIVE ParseBinOpRHS(_, _, _)
RECURSIVE ParseArgs(_, _)

ParseNumberExpr(ps) == Ret(NumberExprAST(ps.num), getNextToken(ps))

\* ParseParenExpr after ParseExpression() returned V.
ParenClose(V) ==
    IF V.r = NullAST THEN V
    ELSE IF V.ps.tok # Ascii[")"] THEN Ret(NullAST, LogError(V.ps, "expected ')'"))
    ELSE Ret(V.r, getNextToken(V.ps))

ParseParenExpr(ps) == ParenClose(ParseExpression(getNextToken(ps)))

\* One round of the while (1) loop of ParseIdentifierExpr, after
\* ParseExpression() returned Arg; ok is FALSE where the code returns nullptr.
ArgParsed(Arg, Args) ==
    IF Arg.r = NullAST THEN [ok |-> FALSE, r |-> Args, ps |-> Arg.ps]
    ELSE IF Arg.ps.tok = Ascii[")"]
    THEN [ok |-> TRUE, r |-> Append(Args, Arg.r), ps |-> Arg.ps]
    ELSE IF Arg.ps.tok # Ascii[","]
    THEN [ok |-> FALSE, r |-> Args,
          ps |-> LogError(Arg.ps, "Expected ')' or ',' in the argument list.")]
    ELSE ParseArgs(getNextToken(Arg.ps), Append(Args, Arg.r))

ParseArgs(ps, Args) == ArgParsed(ParseExpression(ps), Args)

\* ParseIdentifierExpr once the argument list A is read.
CallClose(IdName, A) ==
    IF ~A.ok THEN Ret(NullAST, A.ps)
    ELSE Ret(CallExprAST(IdName, A.r), getNextToken(A.ps))

\* ParseIdentifierExpr after the '(' is eaten.
CallOpen(IdName, p2) ==
    CallClose(IdName, IF p2.tok # Ascii[")"] THEN ParseArgs(p2, <<>>)
                      ELSE [ok |-> TRUE, r |-> <<>>, ps |-> p2])

\* ParseIdentifierExpr after the identifier is eaten.
IdentifierEaten(IdName, p1) ==
    IF p1.tok # Ascii["("] THEN Ret(VariableExprAST(IdName), p1)
    ELSE CallOpen(IdName, getNextToken(p1))

ParseIdentifierExpr(ps) == IdentifierEaten(ps.id, getNextToken(ps))

ParsePrimary(ps) ==
    CASE ps.tok = tok_identifier -> ParseIdentifierExpr(ps)
      [] ps.tok = tok_number -> ParseNumberExpr(ps)
      [] ps.tok = Ascii["("] -> ParseParenExpr(ps)
      [] OTHER ->
            Ret(NullAST, LogError(ps, "Unkown token when expecting expression."))

\* if (TokPrec < ExprPrec) return LHS;
StopsAt(TokPrec, ExprPrec) == TokPrec < ExprPrec

AbsorbsNextMutant(TokPrec, NextPrec) == TokPrec > NextPrec

\* if (TokPrec < NextPrec) RHS = ParseBinOpRHS(TokPrec + 1, RHS);
AbsorbsNext(TokPrec, NextPrec) == TokPrec < NextPrec

\* The end of one round of ParseBinOpRHS's loop: LHS = BinaryExprAST(...).
BinOpMerge(ExprPrec, LHS, BinOp, R2) ==
    IF R2.r = NullAST THEN R2
    ELSE ParseBinOpRHS(ExprPrec, BinaryExprAST(BinOp, LHS, R2.r), R2.ps)

\* One round of the loop after ParsePrimary() returned R1.
BinOpRHSParsed(ExprPrec, LHS, BinOp, TokPrec, R1) ==
    IF R1.r = NullAST THEN R1
    ELSE BinOpMerge(ExprPrec, LHS, BinOp,
                    IF AbsorbsNext(TokPrec, GetTokPrecedence(R1.ps.tok))
                    THEN ParseBinOpRHS(TokPrec + 1, R1.r, R1.ps)
                    ELSE R1)

ParseBinOpRHS(ExprPrec, LHS, ps) ==
    IF StopsAt(GetTokPrecedence(ps.tok), ExprPrec) THEN Ret(LHS, ps)
    ELSE BinOpRHSParsed(ExprPrec, LHS, ps.tok, GetTokPrecedence(ps.tok),
                        ParsePrimary(getNextToken(ps)))

\* ParseExpression after ParsePrimary() returned L.
PrimaryParsed(L) == IF L.r = NullAST THEN L ELSE ParseBinOpRHS(0, L.r, L.ps)

ParseExpression(ps) == PrimaryParsed(ParsePrimary(ps))

\* while (getNextToken() == tok_identifier) ArgNames.push_back(IdentifierStr);
RECURSIVE ParseArgNames(_, _)
ArgNameRead(p1, ArgNames) ==
    IF p1.tok = tok_identifier THEN ParseArgNames(p1, Append(ArgNames, p1.id))
    ELSE Ret(ArgNames, p1)

ParseArgNames(ps, ArgNames) == ArgNameRead(getNextToken(ps), ArgNames)

\* ParsePrototype once the argument names A are read.
PrototypeClose(FnName, A) ==
    IF A.ps.tok # Ascii[")"]
    THEN Ret(NullAST, LogError(A.ps, "Expected ')' in prototype."))
    ELSE Ret(PrototypeAST(FnName, A.r), getNextToken(A.ps))

\* ParsePrototype after the function name is eaten.
PrototypeOpen(FnName, p1) ==
    IF p1.tok # Ascii["("]
    THEN Ret(NullAST, LogError(p1, "Expected '(' in prototype."))
    ELSE PrototypeClose(FnName, ParseArgNames(p1, <<>>))

ParsePrototype(ps) ==
    IF ps.tok # tok_identifier
    THEN Ret(NullAST, LogError(ps, "Expected function in prototype."))
    ELSE PrototypeOpen(ps.id, getNextToken(ps))

\* ParseDefinition after ParseExpression() returned E.
BodyParsed(Proto, E) ==
    IF E.r = NullAST THEN E ELSE Ret(FunctionAST(Proto.r, E.r), E.ps)

\* ParseDefinition after ParsePrototype() returned Proto.
ProtoParsed(Proto) ==
    IF Proto.r = NullAST THEN Proto
    ELSE BodyParsed(Proto, ParseExpression(Proto.ps))

ParseDefinition(ps) == ProtoParsed(ParsePrototype(getNextToken(ps)))

\* ParseTopLevelExpr after ParseExpression() returned E.
TopLevelParsed(E) ==
    IF E.r = NullAST THEN E
    ELSE Ret(FunctionAST(PrototypeAST("", <<>>), E.r), E.ps)

ParseTopLevelExpr(ps) == TopLevelParsed(ParseExpression(ps))

ParseExtern(ps) == ParsePrototype(getNextToken(ps))

-----------------------------------------------------------------------------
(* IR values and functions.  An instruction is kept as a tree over its     *)
(* operands; a function keeps the instructions of its entry block in the   *)
(* order the builder inserted them.  id stands for the object's address.   *)

NullV == [k |-> "null"]
ConstantFP(v) == [k |-> "const", v |-> v]
Argument(fid, i) == [k |-> "arg", fn |-> fid, i |-> i]
Instruction(opc, ops, fid) == [k |-> "inst", opc |-> opc, ops |-> ops, fn |-> fid]

\* A null llvm::Function*.
NoFn == [id |-> 0, name |-> "", args |-> <<>>, blocks |-> 0, insts |-> <<>>]

\* module->getFunction(Name): the anonymous function is in no symbol table.
getFunction(m, Name) ==
    IF Name # "" /\ \E f \in m : f.name = Name
    THEN CHOOSE f \in m : f.name = Name
    ELSE NoFn

\* function->empty(): the function has no basic block.
empty(f) == f.blocks = 0

\* The function's block ends in a terminator: its body is complete.
Terminated(f) ==
    f.insts # <<>> /\ f.insts[Len(f.insts)].opc = "ret"

Range(s) == {s[i] : i \in DOMAIN s}

\* The function addresses a value holds (callees, owners of arguments).
RECURSIVE RefsOfValue(_)
RefsOfValue(v) ==
    CASE v.k = "arg" -> {v.fn}
      [] v.k = "inst" ->
            (IF v.opc = "call" THEN {v.fn} ELSE {})
            \cup UNION {RefsOfValue(x) : x \in Range(v.ops)}
      [] OTHER -> {}

\* The functions an instruction calls.
RECURSIVE CalleesOfValue(_)
CalleesOfValue(v) ==
    IF v.k = "inst"
    THEN (IF v.opc = "call" THEN {v.fn} ELSE {})
         \cup UNION {CalleesOfValue(x) : x \in Range(v.ops)}
    ELSE {}

\* An instruction of another function of m still calls f.
HasUsers(m, f) ==
    \E g \in m : g.id # f.id /\
        \E x \in Range(g.insts) : f.id \in CalleesOfValue(x)

\* The addresses in use: those of the live functions and those a pointer
\* still holds.
Addresses(m, nv) ==
    {f.id : f \in m}
    \cup UNION {RefsOfValue(x) : x \in UNION {Range(f.insts) : f \in m}}
    \cup UNION {RefsOfValue(nv[n]) : n \in DOMAIN nv}

\* A fresh address.
NewId(m, nv) ==
    CHOOSE i \in 1..(Cardinality(Addresses(m, nv)) + 1) :
        /\ i \notin Addresses(m, nv)
        /\ \A j \in 1..(i - 1) : j \in Addresses(m, nv)

-----------------------------------------------------------------------------
(* Lowering.  cg is the code generator's state while one function is       *)
(* lowered: namedValues, the instructions inserted so far, the messages    *)
(* logged, and whether the process has died.  Where the code's behaviour   *)
(* is undefined, ub picks what the build does.                             *)

UB == {"crash", "proceed"}

Val(v, cg) == [v |-> v, cg |-> cg]

LogErrorV(cg, str) == Val(NullV, [cg EXCEPT !.log = Append(@, str)])

\* The builder's constant folder.
Fold(opc, a, b) ==
    CASE opc = "fadd" -> a + b
      [] opc = "fsub" -> a - b
      [] opc = "fmul" -> a * b
      [] opc = "fcmp_ult" -> IF a < b THEN 1 ELSE 0
      [] OTHER -> a

\* irBuilder->CreateXxx: constants fold, anything else is an instruction
\* inserted at the end of the block.
Create(opc, ops, fid, cg) ==
    IF opc \in {"fadd", "fsub", "fmul", "fcmp_ult", "uitofp"}
       /\ \A i \in DOMAIN ops : ops[i].k = "const"
    THEN Val(ConstantFP(Fold(opc, ops[1].v, ops[Len(ops)].v)), cg)
    ELSE Val(Instruction(opc, ops, fid),
             [cg EXCEPT !.insts = Append(@, Instruction(opc, ops, fid))])

RECURSIVE codegen(_, _, _, _)
RECURSIVE CallArgs(_, _, _, _, _, _)

NumberExprAST_codegen(e, cg) == Val(ConstantFP(e.v), cg)

\* namedValues[Name] makes a null entry for a name the map does not hold.
VariableExprAST_codegen(e, cg) ==
    IF e.name \in DOMAIN cg.nv /\ cg.nv[e.name] # NullV
    THEN Val(cg.nv[e.name], cg)
    ELSE Val(NullV, [cg EXCEPT !.nv = [n \in DOMAIN cg.nv \cup {e.name} |-> 
                                          IF n \in DOMAIN cg.nv THEN cg.nv[n]
                                          ELSE NullV],
                               !.log = Append(@, "Unkown variable name.")])

\* llvm::Value *L = LHS->codegen();
LeftOperand(e) == e.lhs

\* llvm::Value *R = LHS->codegen();
RightOperand(e) == e.lhs

\* CreateUIToFP(L, double)
UIToFP(L) == Create("uitofp", <<L.v>>, 0, L.cg)

\* BinaryExprAST::codegen from if (!L || !R) on.
BinaryEmit(e, L, R) ==
    IF L.v = NullV \/ R.v = NullV THEN Val(NullV, R.cg)
    ELSE CASE e.op = Ascii["+"] -> Create("fadd", <<L.v, R.v>>, 0, R.cg)
           [] e.op = Ascii["-"] -> Create("fsub", <<L.v, R.v>>, 0, R.cg)
           [] e.op = Ascii["*"] -> Create("fmul", <<L.v, R.v>>, 0, R.cg)
           [] e.op = Ascii["<"] ->
                 UIToFP(Create("fcmp_ult", <<L.v, R.v>>, 0, R.cg))
           [] OTHER -> LogErrorV(R.cg, "Invalid binary operator.")

\* BinaryExprAST::codegen after L is computed.
BinaryLeft(e, m, L, ub) ==
    BinaryEmit(e, L, codegen(RightOperand(e), m, L.cg, ub))

BinaryExprAST_codegen(e, m, cg, ub) ==
    BinaryLeft(e, m, codegen(LeftOperand(e), m, cg, ub), ub)

\* if (!Args.back()) : the test reads the last AST argument.
ArgFailed(Args, ArgsV) == Args[Len(Args)] = NullAST

\* One round of the argument loop after Args[i]->codegen() returned A.
ArgLowered(Args, i, ArgsV, m, A, ub) ==
    IF ArgFailed(Args, Append(ArgsV, A.v))
    THEN [ok |-> FALSE, vs |-> Append(ArgsV, A.v), cg |-> A.cg]
    ELSE CallArgs(Args, i + 1, Append(ArgsV, A.v), m, A.cg, ub)

\* for (i = 0; i != e; ++i) ArgsV.push_back(Args[i]->codegen());
CallArgs(Args, i, ArgsV, m, cg, ub) ==
    IF i > Len(Args) THEN [ok |-> TRUE, vs |-> ArgsV, cg |-> cg]
    ELSE ArgLowered(Args, i, ArgsV, m, codegen(Args[i], m, cg, ub), ub)

\* irBuilder->CreateCall(CalleF, ArgsV): a null operand is undefined
\* behaviour: the process dies, or a call with that operand is built.
CreateCall(CalleF, A, ub) ==
    IF ~A.ok THEN Val(NullV, A.cg)
    ELSE IF (\E i \in DOMAIN A.vs : A.vs[i] = NullV) /\ ub = "crash"
    THEN Val(NullV, [A.cg EXCEPT !.crash = TRUE])
    ELSE Create("call", A.vs, CalleF.id, A.cg)

ArgCountDiffersMutant(CalleF, Args) == Len(CalleF.args) > Len(Args)

\* CalleF->arg_size() != Args.size()
ArgCountDiffers(CalleF, Args) == Len(CalleF.args) # Len(Args)

CallExprAST_codegen(e, m, cg, ub) ==
    IF getFunction(m, e.callee) = NoFn
    THEN LogErrorV(cg, "Unkown function refrenced.")
    ELSE IF ArgCountDiffers(getFunction(m, e.callee), e.args)
    THEN LogErrorV(cg, "Incorrect number of arguments passed.")
    ELSE CreateCall(getFunction(m, e.callee),
                    CallArgs(e.args, 1, <<>>, m, cg, ub), ub)

\* ExprAST::codegen, dispatched on the node.  Nothing runs after the
\* process has died.
codegen(e, m, cg, ub) ==
    IF cg.crash THEN Val(NullV, cg)
    ELSE CASE e.k = "num" -> NumberExprAST_codegen(e, cg)
           [] e.k = "var" -> VariableExprAST_codegen(e, cg)
           [] e.k = "bin" -> BinaryExprAST_codegen(e, m, cg, ub)
           [] OTHER -> CallExprAST_codegen(e, m, cg, ub)

\* ValueSymbolTable::makeUniqueName: append the table's counter until the
\* name is free; a global value gets a dot first.
RECURSIVE makeUniqueName(_, _, _, _)
makeUniqueName(taken, Name, dot, last) ==
    IF (Name \o dot \o ToString(last + 1)) \notin taken
    THEN [name |-> Name \o dot \o ToString(last + 1), last |-> last + 1]
    ELSE makeUniqueName(taken, Name, dot, last + 1)

\* for (auto &Arg : function->args()) Arg.setName(Args[index++]);
RECURSIVE setArgNames(_, _, _)
setArgNames(Args, named, last) ==
    IF Len(named) = Len(Args) THEN named
    ELSE IF Args[Len(named) + 1] \notin Range(named)
    THEN setArgNames(Args, Append(named, Args[Len(named) + 1]), last)
    ELSE setArgNames(Args,
             Append(named,
                 makeUniqueName(Range(named), Args[Len(named) + 1], "", last).name),
             makeUniqueName(Range(named), Args[Len(named) + 1], "", last).last)

\* Function::Create under Name, or under a unique name when Name is taken.
CreatedName(m, Name, last) ==
    IF Name = "" \/ getFunction(m, Name) = NoFn
    THEN [name |-> Name, last |-> last]
    ELSE makeUniqueName({f.name : f \in m}, Name, ".", last)

\* The function object PrototypeAST::codegen builds.
NewFunction(proto, id, U) ==
    [id |-> id, name |-> U.name, args |-> setArgNames(proto.args, <<>>, 0),
     blocks |-> 0, insts |-> <<>>]

\* PrototypeAST::codegen with the function named U.name.
Created(function, m, U) ==
    [F |-> function, m |-> m \cup {function}, last |-> U.last]

PrototypeAST_codegen(proto, m, last, nv) ==
    Created(NewFunction(proto, NewId(m, nv), CreatedName(m, proto.name, last)),
            m, CreatedName(m, proto.name, last))

IsRedefinitionMutant(function) == FALSE

\* if (!function->empty()) return LogErrorV("Function cannot be redefined.");
IsRedefinition(function) == ~empty(function)

KeepFunction(m, function) == m

KeepAnonymous(m, function) ==
    {f \in m : f.id # function.id \/ function.name = ""}

\* function->eraseFromParent()
eraseFromParent(m, function) == {f \in m : f.id # function.id}

\* BasicBlock::Create(context, "entry", function)
EntryBlock(function) == [function EXCEPT !.blocks = @ + 1]

\* The module with function f in its present state g.
Update(m, g) == {f \in m : f.id # g.id} \cup {g}

\* namedValues.clear(); namedValues[Arg.getName()] = &Arg for every Arg.
BindArgs(function) ==
    [n \in Range(function.args) |->
        Argument(function.id,
                 CHOOSE i \in DOMAIN function.args : function.args[i] = n)]

\* The function with the instructions the builder inserted.
Built(function, insts) == [EntryBlock(function) EXCEPT !.insts = insts]

\* What FunctionAST::codegen leaves: the function returned (or null), the
\* module, the symbol table's counter, namedValues, the log and whether the
\* process died.
Lowered(F, m, last, cg) ==
    [F |-> F, m |-> m, last |-> last, nv |-> cg.nv, log |-> cg.log,
     crash |-> cg.crash]

\* FunctionAST::codegen after Body->codegen() returned B.  Erasing a
\* function that still has users is undefined behaviour.
BodyLowered(P, B, ub) ==
    IF B.cg.crash
    THEN Lowered(NoFn, Update(P.m, Built(P.F, B.cg.insts)), P.last, B.cg)
    ELSE IF B.v # NullV
    THEN Lowered(Built(P.F, Create("ret", <<B.v>>, 0, B.cg).cg.insts),
                 Update(P.m, Built(P.F, Create("ret", <<B.v>>, 0, B.cg).cg.insts)),
                 P.last, B.cg)
    ELSE IF HasUsers(P.m, P.F) /\ ub = "crash"
    THEN Lowered(NoFn, Update(P.m, Built(P.F, B.cg.insts)), P.last,
                 [B.cg EXCEPT !.crash = TRUE])
    ELSE Lowered(NoFn, eraseFromParent(P.m, P.F), P.last, B.cg)

\* FunctionAST::codegen once function is found or created (P).
FunctionFound(fn, P, nv, ub) ==
    IF IsRedefinition(P.F)
    THEN Lowered(NoFn, P.m, P.last,
                 [nv |-> nv, insts |-> <<>>,
                  log |-> <<"Function cannot be redefined.">>, crash |-> FALSE])
    ELSE BodyLowered(P,
             codegen(fn.body, Update(P.m, EntryBlock(P.F)),
                     [nv |-> BindArgs(P.F), insts |-> <<>>, log |-> <<>>,
                      crash |-> FALSE], ub),
             ub)

FunctionAST_codegen(fn, m, last, nv, ub) ==
    FunctionFound(fn,
        IF getFunction(m, fn.proto.name) = NoFn
        THEN PrototypeAST_codegen(fn.proto, m, last, nv)
        ELSE [F |-> getFunction(m, fn.proto.name), m |-> m, last |-> last],
        nv, ub)

-----------------------------------------------------------------------------
(* The environment: what the user may type for one step of the driver.     *)
(* A chunk is the lexemes one step reads, its one token of lookahead       *)
(* included; the empty lookahead is the end of the input.                  *)

FNames == {"f", "g"}
ParamLists == {<<>>, <<"a">>, <<"b">>, <<"a", "b">>}

RECURSIVE Words(_)
Words(names) ==
    IF names = <<>> THEN <<>> ELSE <<W(Head(names))>> \o Words(Tail(names))

\* name ( params )
ProtoLex ==
    {<<W(n), C("(")>> \o Words(ps) \o <<C(")")>> : n \in FNames, ps \in ParamLists}

\* name ( args )
CallLex ==
    {<<W(n), C("(")>> \o a \o <<C(")")>> :
        n \in FNames,
        a \in {<<>>, <<N(1)>>, <<W("a")>>, <<W("b")>>,
               <<N(1), C(","), N(2)>>, <<W("a"), C(","), W("b")>>}}

ExprLex ==
    {<<N(1)>>, <<W("a")>>, <<W("b")>>, <<W("a"), C("+"), W("b")>>,
     <<W("b"), C("<"), W("a")>>, <<N(1), C("*"), N(2)>>,
     <<C("("), N(1), C(")")>>} \cup CallLex

\* What follows a form: ';', the next definition, or the end of the input.
Follow == {<<C(";")>>, <<W("def")>>, <<>>}

\* After def.
DefChunks ==
    {p \o e \o f : p \in ProtoLex, e \in ExprLex, f \in Follow}
    \cup {<<>>, <<W("f"), C("(")>>, <<W("f"), C("("), W("a")>>}
    \cup {b \o f : b \in {<<C("(")>>, <<W("f"), C("("), W("a"), C(",")>>,
                          <<W("f"), C("("), W("a"), C(")"), C(")")>>},
                   f \in Follow}

\* After extern.
ExternChunks ==
    {p \o f : p \in ProtoLex, f \in Follow}
    \cup {<<>>, <<W("g"), C("(")>>}
    \cup {b \o f : b \in {<<N(1)>>, <<W("g"), C(";")>>}, f \in Follow}

\* The lexeme e starts with is the token in CurTok.
IsCurrent(e) ==
    CASE Head(e).k = "word" -> CurTok = tok_identifier /\ IdentifierStr = Head(e).s
      [] Head(e).k = "num" -> CurTok = tok_number /\ NumVal = Head(e).v
      [] OTHER -> CurTok = Head(e).v

\* After the first token of a top-level expression.
TopChunks ==
    {Tail(e) \o f :
        e \in {x \in ExprLex \cup {<<C(")")>>, <<C("("), C(")")>>,
                                  <<W("f"), C("(")>>,
                                  <<W("f"), C("("), N(1), C(";")>>} :
                  IsCurrent(x)},
        f \in Follow}
    \cup {<<>>}

\* The first token of a form.
FirstChunks ==
    {<<>>} \cup {<<x>> : x \in {W("def"), W("extern"), C(";"), C(")"), C("("),
                                N(1), W("a"), W("f"), W("g")}}

-----------------------------------------------------------------------------
(* The driver. *)

EmptyMap == [n \in {} |-> NullV]

\* The state main() starts in, with typed of the input typed ahead and n
\* lexemes still to come.
Boot(typed, n) ==
    /\ pc = "start"
    /\ CurTok = 0
    /\ IdentifierStr = ""
    /\ NumVal = 0
    /\ LastCharEOF = FALSE
    /\ stdin = typed
    /\ budget = n
    /\ module = {}
    /\ LastUnique = 0
    /\ namedValues = EmptyMap
    /\ stderr = <<>>
    /\ ast = NullAST
    /\ FnIR = NoFn

Init == Boot(<<>>, MaxInput)

\* The reader at the start of a step for which chunk is typed.
Reader(chunk) ==
    [tok |-> CurTok, id |-> IdentifierStr, num |-> NumVal, eof |-> LastCharEOF,
     in |-> stdin \o chunk, log |-> <<>>]

\* The environment types chunk.
Typed(chunk) == Len(chunk) <= budget /\ budget' = budget - Len(chunk)

\* The step leaves the reader in ps; what was typed for it, it has read.
Read(chunk, ps) ==
    /\ chunk # <<>> => ps.in = <<>>
    /\ CurTok' = ps.tok
    /\ IdentifierStr' = ps.id
    /\ NumVal' = ps.num
    /\ LastCharEOF' = ps.eof
    /\ stdin' = ps.in

SkipTokenMutant(ps) == ps

\* The handlers' else branch: getNextToken();
SkipToken(ps) == getNextToken(ps)

\* A handler whose parse returned nullptr.
ParseFailed(chunk, ps) ==
    /\ Read(chunk, SkipToken(ps))
    /\ pc' = "ready"
    /\ ast' = NullAST
    /\ FnIR' = NoFn
    /\ stderr' = ps.log
    /\ UNCHANGED <<module, LastUnique, namedValues>>

\* A handler whose parse returned tree: G is what codegen() left; the
\* IR is printed after msg, and HandleTopLevelExpression erases it.
Handled(chunk, ps, tree, G, msg, erase) ==
    /\ Read(chunk, ps)
    /\ pc' = IF G.crash THEN "crashed" ELSE "ready"
    /\ ast' = tree
    /\ FnIR' = G.F
    /\ module' = IF erase /\ G.F # NoFn THEN eraseFromParent(G.m, G.F) ELSE G.m
    /\ LastUnique' = G.last
    /\ namedValues' = G.nv
    /\ stderr' = ps.log \o G.log \o (IF G.F # NoFn THEN <<msg>> ELSE <<>>)

\* main up to MainLoop(): the first getNextToken(), InitializeModule().
Start ==
    /\ pc = "start"
    /\ \E chunk \in FirstChunks :
          Typed(chunk) /\ Read(chunk, getNextToken(Reader(chunk)))
    /\ pc' = "ready"
    /\ UNCHANGED <<module, LastUnique, namedValues, stderr, ast, FnIR>>

\* case tok_eof: return;
MainLoopReturn ==
    /\ pc = "ready"
    /\ CurTok = tok_eof
    /\ pc' = "done"
    /\ UNCHANGED <<CurTok, IdentifierStr, NumVal, LastCharEOF, stdin, budget,
                   module, LastUnique, namedValues, stderr, ast, FnIR>>

\* case ';': getNextToken();
SkipSemicolon ==
    /\ pc = "ready"
    /\ CurTok = Ascii[";"]
    /\ \E chunk \in FirstChunks :
          Typed(chunk) /\ Read(chunk, getNextToken(Reader(chunk)))
    /\ pc' = "ready"
    /\ UNCHANGED <<module, LastUnique, namedValues, stderr, ast, FnIR>>

\* HandleDefinition after ParseDefinition() returned FnAST.
DefinitionParsed(chunk, FnAST) ==
    IF FnAST.r = NullAST THEN ParseFailed(chunk, FnAST.ps)
    ELSE \E ub \in UB :
         \E G \in {FunctionAST_codegen(FnAST.r, module, LastUnique, namedValues, ub)} :
            Handled(chunk, FnAST.ps, FnAST.r, G, "Read function definitions:", FALSE)

HandleDefinition ==
    /\ pc = "ready"
    /\ CurTok = tok_def
    /\ \E chunk \in DefChunks :
          /\ Typed(chunk)
          /\ \E FnAST \in {ParseDefinition(Reader(chunk))} :
                DefinitionParsed(chunk, FnAST)

\* HandleExtern after ParseExtern() returned ProtoAST.
ExternParsed(chunk, ProtoAST) ==
    IF ProtoAST.r = NullAST THEN ParseFailed(chunk, ProtoAST.ps)
    ELSE \E P \in {PrototypeAST_codegen(ProtoAST.r, module, LastUnique, namedValues)} :
            Handled(chunk, ProtoAST.ps, ProtoAST.r,
                    Lowered(P.F, P.m, P.last,
                            [nv |-> namedValues, log |-> <<>>, crash |-> FALSE]),
                    "Read extern.", FALSE)

HandleExtern ==
    /\ pc = "ready"
    /\ CurTok = tok_extern
    /\ \E chunk \in ExternChunks :
          /\ Typed(chunk)
          /\ \E ProtoAST \in {ParseExtern(Reader(chunk))} :
                ExternParsed(chunk, ProtoAST)

\* HandleTopLevelExpression after ParseTopLevelExpr() returned FnAST.
TopLevelExprParsed(chunk, FnAST) ==
    IF FnAST.r = NullAST THEN ParseFailed(chunk, FnAST.ps)
    ELSE \E ub \in UB :
         \E G \in {FunctionAST_codegen(FnAST.r, module, LastUnique, namedValues, ub)} :
            Handled(chunk, FnAST.ps, FnAST.r, G, "Read top level expression.", TRUE)

HandleTopLevelExpression ==
    /\ pc = "ready"
    /\ CurTok \notin {tok_eof, Ascii[";"], tok_def, tok_extern}
    /\ \E chunk \in TopChunks :
          /\ Typed(chunk)
          /\ \E FnAST \in {ParseTopLevelExpr(Reader(chunk))} :
                TopLevelExprParsed(chunk, FnAST)

Next ==
    \/ Start
    \/ MainLoopReturn
    \/ SkipSemicolon
    \/ HandleDefinition
    \/ HandleExtern
    \/ HandleTopLevelExpression

Spec == Init /\ [][Next]_vars

\* A short session in which the input is sure to arrive or to end.
InitFair == Boot(<<>>, MaxFair)

FairSpec == InitFair /\ [][Next]_vars /\ WF_vars(Next)

-----------------------------------------------------------------------------
(* The driver on an operator expression typed ahead:                       *)
(* 1 op 2 op 3 ..., then a terminator or the end of the input.             *)

Ops == {"<", "+", "-", "*"}

RECURSIVE OpSeqs(_)
OpSeqs(n) ==
    IF n = 0 THEN {<<>>}
    ELSE OpSeqs(n - 1)
         \cup {s \o <<o>> : s \in {x \in OpSeqs(n - 1) : Len(x) = n - 1}, o \in Ops}

RECURSIVE ExprOf(_, _)
ExprOf(ops, i) ==
    IF i > Len(ops) THEN <<>>
    ELSE <<C(ops[i]), N(i + 1)>> \o ExprOf(ops, i + 1)

Terminators ==
    {<<>>, <<C(";")>>, <<C(")")>>, <<C("/")>>, <<W("def")>>, <<W("extern")>>}

ParseInputs ==
    {<<N(1)>> \o ExprOf(ops, 1) \o t : ops \in OpSeqs(MaxOps), t \in Terminators}

InitParse == \E typed \in ParseInputs : Boot(typed, 0)

SpecParse == InitParse /\ [][Next]_vars

-----------------------------------------------------------------------------
(* Properties. *)

\* The precedence the language gives an operator.
RefPrec(c) == CASE c = "<" -> 10 [] c = "+" -> 20 [] c = "-" -> 20 [] c = "*" -> 40

\* The operator at the root of primary (op primary)*: the last of those of
\* the lowest precedence.
RootOp(seq) ==
    CHOOSE k \in {j \in DOMAIN seq : j % 2 = 0} :
        \A j \in {i \in DOMAIN seq : i % 2 = 0} :
            \/ RefPrec(seq[j].s) > RefPrec(seq[k].s)
            \/ RefPrec(seq[j].s) = RefPrec(seq[k].s) /\ j <= k

\* The tree in which a higher precedence binds tighter and operators of
\* equal precedence group to the left.
RECURSIVE RefTree(_)
RefTree(seq) ==
    IF Len(seq) = 1 THEN NumberExprAST(seq[1].v)
    ELSE BinaryExprAST(seq[RootOp(seq)].v,
                       RefTree(SubSeq(seq, 1, RootOp(seq) - 1)),
                       RefTree(SubSeq(seq, RootOp(seq) + 1, Len(seq))))

\* The input unread when the expression starts, CurTok's number in front.
Pending == <<N(NumVal)>> \o stdin

\* The expression in Pending: all of it but a terminator at its end.
ExprPart ==
    IF Pending[Len(Pending)].k = "num" THEN Pending
    ELSE SubSeq(Pending, 1, Len(Pending) - 1)

\* The token of the terminator, end-of-input when there is none.
TerminatorTok ==
    IF Pending[Len(Pending)].k = "num" THEN tok_eof
    ELSE getNextToken([tok |-> 0, id |-> "", num |-> 0, eof |-> FALSE,
                       in |-> <<Pending[Len(Pending)]>>, log |-> <<>>]).tok

\* C1: parsing primary (op primary)* with the precedences < 10, + 20, - 20,
\* * 40 builds the tree in which a higher precedence binds tighter and equal
\* precedences group to the left, and leaves CurTok on the first token that
\* is not part of the expression.
C1_PrecedenceTree ==
    [][pc = "ready" /\ CurTok = tok_number
        => /\ ast' = FunctionAST(PrototypeAST("", <<>>), RefTree(ExprPart))
           /\ CurTok' = TerminatorTok
           /\ stdin' = <<>>]_vars

\* 1+2*3-4; has been parsed as ((1+(2*3))-4) and CurTok is the ';'.
C1_Witness ==
    /\ ast = FunctionAST(PrototypeAST("", <<>>),
               BinaryExprAST(Ascii["-"],
                   BinaryExprAST(Ascii["+"], NumberExprAST(1),
                       BinaryExprAST(Ascii["*"], NumberExprAST(2), NumberExprAST(3))),
                   NumberExprAST(4)))
    /\ CurTok = Ascii[";"]

\* The step handles a definition that parsed.
DefinitionStep == pc = "ready" /\ CurTok = tok_def /\ ast'.k = "func"

\* The step handles a top-level expression that parsed as a call.
CallStep ==
    pc = "ready" /\ CurTok = tok_identifier /\ ast'.k = "func" /\ ast'.body.k = "call"

\* C2: once a definition of f is lowered, every later def f is rejected
\* with the redefinition error and f stays in the module with its first body.
C2_RedefinitionRejected ==
    [][/\ \A f \in module : Terminated(f) => f \in module'
       /\ DefinitionStep /\ Terminated(getFunction(module, ast'.proto.name))
            => /\ FnIR' = NoFn
               /\ stderr' = <<"Function cannot be redefined.">>
               /\ module' = module
               /\ pc' = "ready"]_vars

\* A second def f has been rejected and f is still defined.
C2_Witness ==
    /\ stderr = <<"Function cannot be redefined.">>
    /\ ast.k = "func"
    /\ FnIR = NoFn
    /\ Terminated(getFunction(module, ast.proto.name))

\* The last handler was a definition whose body failed to lower.
BodyFailed ==
    /\ pc # "crashed"
    /\ ast.k = "func"
    /\ ast.proto.name # ""
    /\ FnIR = NoFn
    /\ stderr # <<"Function cannot be redefined.">>

\* C3: a definition whose body fails to lower is removed from the module:
\* no function is left with a partially built body, the name is not found,
\* and a call of it right after fails with the unknown-function error.
C3_FailedBodyRemoved ==
    /\ [](pc # "crashed" => \A f \in module : empty(f) \/ Terminated(f))
    /\ [](BodyFailed => getFunction(module, ast.proto.name) = NoFn)
    /\ [][BodyFailed /\ CallStep /\ ast'.body.callee = ast.proto.name
            => FnIR' = NoFn /\ stderr' = <<"Unkown function refrenced.">>]_vars

\* def f(..) with an unknown variable as its body has failed.
C3_Witness ==
    /\ BodyFailed
    /\ pc = "ready"
    /\ ast.proto.name = "f"
    /\ stderr = <<"Unkown variable name.">>

\* C4: a definition whose lowering fails leaves the module as it was: a
\* function an earlier extern declared is still there.
C4_FailedLoweringRolledBack ==
    [][DefinitionStep /\ FnIR' = NoFn /\ pc' = "ready" => module' = module]_vars

\* C5: lowering a call fails with the unknown-function error when the
\* callee is neither declared nor defined, fails with the argument-count
\* error when the counts differ, and otherwise, the arguments lowered,
\* emits one call of the function found.
C5_CallLowering ==
    [][CallStep =>
        IF getFunction(module, ast'.body.callee) = NoFn
        THEN FnIR' = NoFn /\ stderr' = <<"Unkown function refrenced.">>
        ELSE IF Len(getFunction(module, ast'.body.callee).args) # Len(ast'.body.args)
        THEN FnIR' = NoFn /\ stderr' = <<"Incorrect number of arguments passed.">>
        ELSE (\A i \in DOMAIN ast'.body.args : ast'.body.args[i].k = "num")
             => /\ FnIR' # NoFn
                /\ Len(FnIR'.insts) = 2
                /\ FnIR'.insts[1] =
                     Instruction("call",
                         [i \in DOMAIN ast'.body.args |-> ConstantFP(ast'.body.args[i].v)],
                         getFunction(module, ast'.body.callee).id)
                /\ FnIR'.insts[2] = Instruction("ret", <<FnIR'.insts[1]>>, 0)
                /\ stderr' = <<"Read top level expression.">>]_vars

\* A call with two arguments of a function of two parameters was lowered.
C5_Witness ==
    /\ pc = "ready"
    /\ ast.k = "func"
    /\ ast.proto.name = ""
    /\ ast.body.k = "call"
    /\ Len(ast.body.args) = 2
    /\ FnIR # NoFn

\* C6: in the body of a definition a variable lowers iff it is one of the
\* parameters the definition's own prototype names.
C6_OwnParametersInScope ==
    [][/\ DefinitionStep
       /\ ast'.body.k = "var"
       /\ ~Terminated(getFunction(module, ast'.proto.name))
       => (FnIR' # NoFn <=> ast'.body.name \in Range(ast'.proto.args))]_vars

\* What has not been read and may still arrive, the end of the input
\* counted as one more token.
Remaining == Len(stdin) + budget + (IF LastCharEOF THEN 0 ELSE 1)

\* C7: MainLoop terminates: an iteration that does not return reads at
\* least one token, a failed parse skips exactly one token, end-of-input
\* once read is read ever after, and a form the end of the input cuts off
\* is a parse failure that leaves CurTok at end-of-input.
C7_MainLoopTerminates ==
    /\ [][pc = "ready" /\ pc' = "ready" => Remaining' < Remaining]_vars
    /\ [][pc = "ready" /\ CurTok = Ascii[")"]
            => ast' = NullAST /\ Remaining' = Remaining - 1]_vars
    /\ [][LastCharEOF => LastCharEOF']_vars
    /\ [](LastCharEOF => CurTok = tok_eof)
    /\ [][/\ pc = "ready"
          /\ CurTok \in {tok_def, tok_extern}
          /\ LastCharEOF'
          /\ Remaining - Remaining' < 4
          => ast' = NullAST /\ CurTok' = tok_eof]_vars
    /\ <>(pc \in {"done", "crashed"})

\* def f( was cut off by the end of the input and MainLoop has returned.
C7_Witness ==
    /\ pc = "done"
    /\ ast = NullAST
    /\ stderr = <<"Expected ')' in prototype.">>
    /\ IdentifierStr = "f"

\* C8: a call one of whose arguments fails to lower fails itself: no call
\* instruction is emitted.
C8_ArgumentFailurePropagates ==
    [][/\ CallStep
       /\ getFunction(module, ast'.body.callee) # NoFn
       /\ Len(getFunction(module, ast'.body.callee).args) = Len(ast'.body.args)
       /\ \E i \in DOMAIN ast'.body.args : ast'.body.args[i].k = "var"
       => FnIR' = NoFn /\ pc' = "ready"]_vars

\* The value an operand that is a number or a variable lowers to in the
\* body of the new function F with parameters params.
OperandValue(x, params, F) ==
    IF x.k = "num" THEN ConstantFP(x.v)
    ELSE IF x.name \in Range(params)
    THEN Argument(F.id, CHOOSE i \in DOMAIN params : params[i] = x.name)
    ELSE NullV

\* C9: a binary expression lowers its left and its right operand, once
\* each: it fails when either fails, and otherwise its instruction has the
\* left value and the right value as operands.
C9_BothOperandsLowered ==
    [][/\ DefinitionStep
       /\ getFunction(module, ast'.proto.name) = NoFn
       /\ ast'.body.k = "bin"
       /\ ast'.body.lhs.k = "var"
       /\ ast'.body.rhs.k = "var"
       => IF ast'.body.rhs.name \notin Range(ast'.proto.args)
             \/ ast'.body.lhs.name \notin Range(ast'.proto.args)
          THEN FnIR' = NoFn
          ELSE /\ FnIR' # NoFn
               /\ FnIR'.insts[1].ops =
                     <<OperandValue(ast'.body.lhs, ast'.proto.args, FnIR'),
                       OperandValue(ast'.body.rhs, ast'.proto.args, FnIR')>>]_vars

\* C10: a top-level expression, parsed or not, lowered or not, leaves the
\* functions of the module as they were; its anonymous wrapper is not kept.
C10_TopLevelLeavesModule ==
    /\ [][pc = "ready" /\ CurTok \notin {tok_eof, Ascii[";"], tok_def, tok_extern}
            => /\ {f \in module' : f.name # ""} = module
               /\ pc' = "ready" => module' = module]_vars
    /\ [](pc # "crashed" => \A f \in module : f.name # "")

\* A top-level expression was lowered and printed while the module holds a
\* function.
C10_Witness ==
    /\ pc = "ready"
    /\ ast.k = "func"
    /\ ast.proto.name = ""
    /\ FnIR # NoFn
    /\ module # {}

====
